---- MODULE Spec2Model ----
(***************************************************************************)
(* Model of the composite-model builder HodModel (halotools/hod_factory.py)*)
(* and of the mock population pipeline SubhaloMockFactory                  *)
(* (halotools/empirical_models/factories/subhalo_mock_factory.py).         *)
(*                                                                         *)
(* Python dictionaries are functions whose DOMAIN is the key set; Python   *)
(* exceptions are the value of an "exc" field ("none" when nothing was     *)
(* raised); a missing attribute (hasattr(...) is False) is NoAttr.         *)
(***************************************************************************)
EXTENDS Integers, Sequences, FiniteSets, TLC

VARIABLES hod, call, mock, run

vars == <<hod, call, mock, run>>

\* ------------------------------------------------------------------ bounds
\* largest number of (gal_type, feature) entries of a blueprint
MaxComponents == 3
\* largest number of positional arrays of a component_behavior call
MaxArgs == 2

\* ------------------------------------------------------------ dictionaries
NoAttr == "<no attribute>"
NoExc == "none"

EmptyDict == [k \in {} |-> 0]

Keys(d) == DOMAIN d

\* dict(a.items() + b.items()): for a repeated key the later item wins
DictConcat(a, b) ==
    [k \in (DOMAIN a) \cup (DOMAIN b) |-> IF k \in DOMAIN b THEN b[k] ELSE a[k]]

\* the keys of d in the iteration order given by the sequence order
RECURSIVE KeysInOrder(_, _)
KeysInOrder(d, order) ==
    IF order = <<>> THEN <<>>
    ELSE IF Head(order) \in DOMAIN d
         THEN <<Head(order)>> \o KeysInOrder(d, Tail(order))
         ELSE KeysInOrder(d, Tail(order))

\* ----------------------------------------------- component model instances
\* A component model instance: its param_dict, its sec_haloprop_key
\* attribute (NoAttr when it has none) and its new_haloprop_dict attribute
\* (has_new_haloprop_dict is hasattr(model, 'new_haloprop_dict')).
Component(id, pd, sec, has, nhd) ==
    [id |-> id, param_dict |-> pd, sec_haloprop_key |-> sec,
     has_new_haloprop_dict |-> has, new_haloprop_dict |-> nhd]

Components ==
    { Component("M1", [k \in {"logMmin"} |-> 12], NoAttr, FALSE, EmptyDict),
      Component("M2", [k \in {"alpha"} |-> 1], NoAttr, FALSE, EmptyDict),
      Component("M3", [k \in {"logMmin", "sigma"} |-> IF k = "logMmin" THEN 13 ELSE 2],
                "halo_spin", FALSE, EmptyDict),
      Component("M4", EmptyDict, "halo_vmax", FALSE, EmptyDict),
      Component("M5", [k \in {"fsat"} |-> 3], NoAttr, TRUE,
                [k \in {"conc"} |-> "M5.conc"]),
      Component("M6", EmptyDict, NoAttr, TRUE, [k \in {"zform"} |-> "M6.zform"]),
      Component("M7", [k \in {"beta"} |-> 4], "halo_spin", FALSE, EmptyDict),
      Component("M8", [k \in {"sigma_logM"} |-> 5], NoAttr, FALSE, EmptyDict) }

\* halo profile models: prim_haloprop_key and param_func_dict
HaloProfModels ==
    { [prim_haloprop_key |-> "halo_mvir",
       param_func_dict |-> [k \in {"conc"} |-> "prof.conc"]],
      [prim_haloprop_key |-> "halo_vmax", param_func_dict |-> EmptyDict] }

\* values of the haloprop_key_dict constructor argument
HalopropKeyDicts ==
    { [k \in {"prim_haloprop_key"} |-> "halo_mvir"],
      [k \in {"prim_haloprop_key"} |-> "halo_vmax"],
      [k \in {"prim_haloprop_key", "sec_haloprop_key"} |->
          IF k = "prim_haloprop_key" THEN "halo_mvir" ELSE "halo_spin"] }

\* iteration order of the blueprint dictionaries (a Python 2 dict iterates
\* in a fixed order for a fixed key set)
GalTypeOrder == <<"centrals", "satellites">>
FeatureOrder == <<"occupation_model", "profile_model">>

GalTypes == {"centrals", "satellites"}
Features == {"occupation_model", "profile_model"}

BlueprintSize(bp) ==
    LET RECURSIVE Sum(_)
        Sum(S) == IF S = {} THEN 0
                  ELSE LET g == CHOOSE x \in S : TRUE
                       IN Cardinality(DOMAIN bp[g]) + Sum(S \ {g})
    IN Sum(DOMAIN bp)

\* model_blueprint: gal_type -> feature -> component model instance; every
\* galaxy type has an 'occupation_model' feature
Blueprints ==
    LET FeatureDicts ==
            UNION { [F -> Components] :
                      F \in { X \in SUBSET Features : "occupation_model" \in X } }
    IN { bp \in UNION { [G -> FeatureDicts] : G \in (SUBSET GalTypes) \ {{}} } :
            BlueprintSize(bp) <= MaxComponents }


\* the (gal_type, feature, instance) triples of a blueprint in the order the
\* nested loops "for gal_type ...: for feature ..." visit them
RECURSIVE FeatureItems(_, _, _)
FeatureItems(bp, gal_type, keys) ==
    IF keys = <<>> THEN <<>>
    ELSE <<[gal_type |-> gal_type, key |-> Head(keys),
            model |-> bp[gal_type][Head(keys)]]>>
         \o FeatureItems(bp, gal_type, Tail(keys))

RECURSIVE BlueprintItems(_, _)
BlueprintItems(bp, gal_types) ==
    IF gal_types = <<>> THEN <<>>
    ELSE FeatureItems(bp, Head(gal_types),
                      KeysInOrder(bp[Head(gal_types)], FeatureOrder))
         \o BlueprintItems(bp, Tail(gal_types))

\* ----------------------------------------- HodModel._create_haloprop_keys
\* temp_dict of one galaxy type: behavior_key -> sec_haloprop_key of the
\* behaviors that have the attribute
TempDict(bp, gal_type) ==
    [k \in { b \in DOMAIN bp[gal_type] :
               bp[gal_type][b].sec_haloprop_key # NoAttr } |->
        bp[gal_type][k].sec_haloprop_key]

DictValues(d) == { d[k] : k \in DOMAIN d }

\* set(d.values()) where every value of d is itself a dict: hashing the
\* first value raises TypeError (unhashable type: 'dict'); only the empty
\* list of values gives a set
SetOfDictValues(d) ==
    IF DOMAIN d # {}
    THEN [exc |-> "TypeError:unhashable_dict", val |-> {}]
    ELSE [exc |-> NoExc, val |-> {}]

\* the loop over self.gal_types, accumulating sec_haloprop_key_dict
RECURSIVE SecKeyLoop(_, _, _)
SecKeyLoop(bp, gal_types, sec_haloprop_key_dict) ==
    IF gal_types = <<>> THEN [exc |-> NoExc, val |-> sec_haloprop_key_dict]
    ELSE LET gal_type == Head(gal_types)
             temp_dict == TempDict(bp, gal_type)
             n == Cardinality(DictValues(temp_dict))
         IN IF n > 1
            THEN [exc |-> "KeyError:sec_haloprop_within_gal_type",
                  val |-> sec_haloprop_key_dict]
            ELSE IF n = 1
            THEN SecKeyLoop(bp, Tail(gal_types),
                     DictConcat(sec_haloprop_key_dict,
                                [g \in {gal_type} |-> temp_dict]))
            ELSE SecKeyLoop(bp, Tail(gal_types), sec_haloprop_key_dict)

create_haloprop_keys(halo_prof_model, bp) ==
    LET gal_types == KeysInOrder(bp, GalTypeOrder)
        loop == SecKeyLoop(bp, gal_types, EmptyDict)
        values == SetOfDictValues(loop.val)
        result(exc, sec) ==
            [exc |-> exc,
             prim_haloprop_key |-> halo_prof_model.prim_haloprop_key,
             sec_haloprop_key |-> sec]
    IN IF loop.exc # NoExc THEN result(loop.exc, NoAttr)
       ELSE IF values.exc # NoExc THEN result(values.exc, NoAttr)
       ELSE IF Cardinality(values.val) > 1
       THEN result("KeyError:sec_haloprop_across_gal_types", NoAttr)
       ELSE IF Cardinality(values.val) = 1
       THEN result(NoExc, loop.val[Head(KeysInOrder(loop.val, GalTypeOrder))])
       ELSE result(NoExc, NoAttr)

\* ------------------------------------ HodModel.build_composite_param_dict
\* occupation_helpers.test_repeated_keys: raises when the two dictionaries
\* share a key
test_repeated_keys(dict1, dict2) ==
    IF Keys(dict1) \cap Keys(dict2) # {} THEN "KeyError:repeated_param"
    ELSE NoExc

\* the merge that forgets what was accumulated so far
MergeParamDictDropsOutput(model_param_dict, output_dict) == model_param_dict

\* output_dict = dict(model_instance.param_dict.items() + output_dict.items())
MergeParamDict(model_param_dict, output_dict) ==
    DictConcat(model_param_dict, output_dict)

RECURSIVE ParamDictLoop(_, _)
ParamDictLoop(items, output_dict) ==
    IF items = <<>> THEN [exc |-> NoExc, val |-> output_dict]
    ELSE LET model_instance == Head(items).model
             exc == test_repeated_keys(output_dict, model_instance.param_dict)
         IN IF exc # NoExc THEN [exc |-> exc, val |-> output_dict]
            ELSE ParamDictLoop(Tail(items),
                     MergeParamDict(model_instance.param_dict, output_dict))

build_composite_param_dict(model_blueprint) ==
    ParamDictLoop(
        BlueprintItems(model_blueprint, KeysInOrder(model_blueprint, GalTypeOrder)),
        EmptyDict)

\* the build that hands out the first component's own dictionary object
ParamDictOwnerFirstComponent(model_blueprint) ==
    Head(BlueprintItems(model_blueprint,
                        KeysInOrder(model_blueprint, GalTypeOrder))).model.id

\* The component instance whose param_dict object the returned output_dict
\* is. output_dict starts as a new {} and every pass rebinds it to a new
\* dict(...), so the returned object belongs to no component.
ParamDictOwner(model_blueprint) == NoAttr

\* The blueprint after param_dict has been stored into the dictionary object
\* that owner's instances share; nothing changes when the object belongs to
\* no component.
StoreInOwner(bp, owner, param_dict) ==
    [g \in DOMAIN bp |->
        [f \in DOMAIN bp[g] |->
            IF bp[g][f].id = owner
            THEN [bp[g][f] EXCEPT !.param_dict = param_dict]
            ELSE bp[g][f]]]

\* values a caller writes into the composite param_dict
ParamValues == {7}

\* model.param_dict[key] = value: the write goes to the dictionary object
\* self.param_dict is bound to
ParamDictSetItem(self, key, value) ==
    LET written == [self.param_dict EXCEPT ![key] = value]
    IN [self EXCEPT !.param_dict = written,
                    !.model_blueprint =
                        StoreInOwner(self.model_blueprint, self.param_dict_owner, written)]

\* ------------------------------------------ HodModel.get_new_haloprop_dict
\* "intersection != {}": a set never equals the empty-dict literal, so the
\* comparison is True for every intersection
SetNotEqualDictLiteral(intersection) == TRUE

RECURSIVE NewHalopropLoop(_, _)
NewHalopropLoop(items, output_haloprop_dict) ==
    IF items = <<>> THEN [exc |-> NoExc, val |-> output_haloprop_dict]
    ELSE LET behavior_model == Head(items).model
         IN IF behavior_model.has_new_haloprop_dict
            THEN LET new_dict == behavior_model.new_haloprop_dict
                     intersection == Keys(new_dict) \cap Keys(output_haloprop_dict)
                 IN IF SetNotEqualDictLiteral(intersection)
                    THEN \* intersection.pop() raises on the empty set; else
                         \* warnings.warn is reached, and the module never
                         \* imports warnings
                         IF intersection = {}
                         THEN [exc |-> "KeyError:pop_from_empty_set",
                               val |-> output_haloprop_dict]
                         ELSE [exc |-> "NameError:warnings",
                               val |-> output_haloprop_dict]
                    ELSE NewHalopropLoop(Tail(items),
                             DictConcat(output_haloprop_dict, new_dict))
            ELSE NewHalopropLoop(Tail(items), output_haloprop_dict)

get_new_haloprop_dict(halo_prof_model, bp) ==
    NewHalopropLoop(BlueprintItems(bp, KeysInOrder(bp, GalTypeOrder)),
                    halo_prof_model.param_func_dict)

\* ------------------------------------------------------ HodModel.__init__
NoHod ==
    [pc |-> "new", exc |-> NoExc, raised_in |-> "none",
     halo_prof_model |-> NoAttr, model_blueprint |-> EmptyDict,
     haloprop_key_dict |-> EmptyDict, gal_types |-> <<>>,
     prim_haloprop_key |-> NoAttr, sec_haloprop_key |-> NoAttr,
     param_dict |-> EmptyDict, param_dict_owner |-> NoAttr,
     additional_haloprops |-> EmptyDict]

\* the object __init__ leaves behind: the attributes bound before the first
\* statement that raises, or the whole model
HodModelInit(halo_prof_model, model_blueprint, haloprop_key_dict) ==
    LET bound == [NoHod EXCEPT !.halo_prof_model = halo_prof_model,
                               !.model_blueprint = model_blueprint,
                               !.haloprop_key_dict = haloprop_key_dict,
                               !.gal_types = KeysInOrder(model_blueprint, GalTypeOrder)]
        keys == create_haloprop_keys(halo_prof_model, model_blueprint)
        withkeys == [bound EXCEPT !.prim_haloprop_key = keys.prim_haloprop_key,
                                  !.sec_haloprop_key = keys.sec_haloprop_key]
        params == build_composite_param_dict(model_blueprint)
        owner == ParamDictOwner(model_blueprint)
        withparams == [withkeys EXCEPT
                          !.param_dict = params.val,
                          !.param_dict_owner = owner,
                          !.model_blueprint = StoreInOwner(model_blueprint, owner, params.val)]
        newprops == get_new_haloprop_dict(halo_prof_model, model_blueprint)
    IN IF keys.exc # NoExc
       THEN [withkeys EXCEPT !.pc = "failed", !.exc = keys.exc,
                             !.raised_in = "_create_haloprop_keys"]
       ELSE IF params.exc # NoExc
       THEN [withkeys EXCEPT !.pc = "failed", !.exc = params.exc,
                             !.raised_in = "build_composite_param_dict"]
       ELSE IF newprops.exc # NoExc
       THEN [withparams EXCEPT !.pc = "failed", !.exc = newprops.exc,
                               !.raised_in = "get_new_haloprop_dict"]
       ELSE [withparams EXCEPT !.pc = "built",
                               !.additional_haloprops = newprops.val]


\* --------------------------------------------- HodModel.component_behavior
\* mock galaxy catalogs passed as the mock_galaxies keyword: one array per
\* halo property (getattr(mock, key)) and the precomputed _gal_type_indices
MockGalaxies ==
    { [columns |-> [k \in {"halo_mvir", "halo_vmax", "halo_spin"} |->
                      IF k = "halo_mvir" THEN <<11, 12, 13>>
                      ELSE IF k = "halo_vmax" THEN <<21, 22, 23>>
                      ELSE <<31, 32, 33>>],
       gal_type_indices |-> [g \in GalTypes |->
                      IF g = "centrals" THEN <<1, 2>> ELSE <<3>>]] }

\* arrays passed positionally
PositionalArrays == << <<1, 2>>, <<7>> >>

\* *args: no array, the primary array, the primary and the secondary array, ...
ArgLists ==
    { [i \in 1..n |-> PositionalArrays[((i - 1) % Len(PositionalArrays)) + 1]] :
        n \in 0..MaxArgs }

KwargDicts == {EmptyDict} \cup { [k \in {"mock_galaxies"} |-> m] : m \in MockGalaxies }

\* array[gal_type_slice]
Slice(array, gal_type_slice) ==
    [i \in 1..Len(gal_type_slice) |-> array[gal_type_slice[i]]]

\* occupation_helpers.aph_len of the tuple of positional arguments
aph_len(args) == Len(args)

\* the argument resolution that takes the mock whenever one is passed
retrieve_relevant_haloprops_PrefersMock(self, gal_type, component_key, args, kwargs) ==
    IF "mock_galaxies" \in Keys(kwargs)
    THEN [exc |-> NoExc,
          val |-> <<Slice(kwargs["mock_galaxies"].columns[
                              self.haloprop_key_dict["prim_haloprop_key"]],
                          kwargs["mock_galaxies"].gal_type_indices[gal_type])>>]
    ELSE IF aph_len(args) > 0
    THEN [exc |-> NoExc, val |-> args]
    ELSE [exc |-> "SyntaxError:neither", val |-> <<>>]

retrieve_relevant_haloprops(self, gal_type, component_key, args, kwargs) ==
    IF aph_len(args) = 0 /\ "mock_galaxies" \in Keys(kwargs)
    THEN LET mock_galaxies == kwargs["mock_galaxies"]
             prim_haloprop_key == self.haloprop_key_dict["prim_haloprop_key"]
             gal_type_slice == mock_galaxies.gal_type_indices[gal_type]
             prim_haloprop == Slice(mock_galaxies.columns[prim_haloprop_key], gal_type_slice)
         IN IF "sec_haloprop_key" \in Keys(self.haloprop_key_dict)
            THEN LET sec_haloprop_key == self.haloprop_key_dict["sec_haloprop_key"]
                     sec_haloprop == Slice(mock_galaxies.columns[sec_haloprop_key], gal_type_slice)
                 IN [exc |-> NoExc, val |-> <<prim_haloprop, sec_haloprop>>]
            ELSE [exc |-> NoExc, val |-> <<prim_haloprop>>]
    ELSE IF aph_len(args) > 0 /\ "mock_galaxies" \notin Keys(kwargs)
    THEN [exc |-> NoExc, val |-> args]
    ELSE IF aph_len(args) = 0 /\ "mock_galaxies" \notin Keys(kwargs)
    THEN [exc |-> "SyntaxError:neither", val |-> <<>>]
    ELSE [exc |-> "SyntaxError:both", val |-> <<>>]

NoCall ==
    [made |-> FALSE, gal_type |-> NoAttr, component_key |-> NoAttr,
     args |-> <<>>, kwargs |-> EmptyDict, exc |-> NoExc, invoked |-> FALSE,
     function |-> NoAttr, relevant_data |-> <<>>, input_param_dict |-> EmptyDict]

\* the outcome of one component_behavior call: the exception raised, or the
\* component function invoked with its positional data and input_param_dict
ComponentBehaviorCall(self, gal_type, component_key, args, kwargs) ==
    LET relevant_data == retrieve_relevant_haloprops(self, gal_type, component_key, args, kwargs)
        request == [NoCall EXCEPT !.made = TRUE, !.gal_type = gal_type,
                                  !.component_key = component_key,
                                  !.args = args, !.kwargs = kwargs]
    IN IF relevant_data.exc # NoExc
       THEN [request EXCEPT !.exc = relevant_data.exc]
       ELSE [request EXCEPT !.invoked = TRUE,
                            !.function = self.model_blueprint[gal_type][component_key].id,
                            !.relevant_data = relevant_data.val,
                            !.input_param_dict = self.param_dict]

\* ====================================================== SubhaloMockFactory
\* largest number of rows of a halo table
MaxHalos == 3
\* largest number of populate() calls on one mock
MaxPopulate == 2

\* A table maps column names to arrays of one common length.
EmptyTable == [c \in {} |-> <<>>]

\* len(table)
TableLen(table) ==
    IF DOMAIN table = {} THEN 0
    ELSE Len(table[CHOOSE c \in DOMAIN table : TRUE])

\* table[key] = array
SetColumn(table, key, array) == DictConcat(table, [c \in {key} |-> array])

HaloColumnOrder ==
    <<"halo_x", "halo_y", "halo_z", "halo_vx", "halo_vy", "halo_vz",
      "halo_mvir", "halo_spin">>

HaloColumns == { HaloColumnOrder[i] : i \in 1..Len(HaloColumnOrder) }

\* a halo table with the given halo_x column; the other columns hold values
\* that differ from column to column and from row to row
HaloTable(xs) ==
    [c \in HaloColumns |->
        IF c = "halo_x" THEN xs
        ELSE [i \in 1..Len(xs) |->
                 i + 10 * (CHOOSE n \in 1..Len(HaloColumnOrder) : HaloColumnOrder[n] = c)]]

HaloTables == { HaloTable(xs) : xs \in UNION { [1..n -> {0, 1}] : n \in 1..MaxHalos } }

GalpropNames == {"stellar_mass", "sfr"}

GalpropLists ==
    { <<>> } \cup { <<g>> : g \in GalpropNames }
    \cup { p \in GalpropNames \X GalpropNames : p[1] # p[2] }

SeqRange(seq) == { seq[i] : i \in 1..Len(seq) }

\* behaviours of the mc_<galprop> functions the model carries
McKinds == {"rowwise", "seeded", "chained"}

\* behaviours of galaxy_selection_func (NoAttr: the model has none)
SelectionKinds == {NoAttr, "halo_cut", "galprop_cut"}

\* the composite models handed to the factory: galprop_list, the mc_<galprop>
\* attributes present (the domain of mc_functions), galaxy_selection_func,
\* new_haloprop_func_dict and the galprops whose component has gal_type_func.
\* A "chained" function reads the column of the galprop listed before it.
Models ==
    { [galprop_list |-> gl, mc_functions |-> mc, galaxy_selection_func |-> sel,
       has_new_haloprop_func_dict |-> nh,
       new_haloprop_func_dict |-> IF nh THEN [k \in {"conc"} |-> "conc_func"] ELSE EmptyDict,
       gal_type_funcs |-> gt] :
        gl \in GalpropLists,
        mc \in UNION { [S -> McKinds] : S \in SUBSET GalpropNames },
        sel \in SelectionKinds, nh \in BOOLEAN, gt \in SUBSET GalpropNames } 

ValidModel(model) ==
    LET gl == model.galprop_list
    IN /\ DOMAIN model.mc_functions \subseteq SeqRange(gl)
       /\ \A i \in 1..Len(gl) :
             (gl[i] \in DOMAIN model.mc_functions /\ model.mc_functions[gl[i]] = "chained")
                => (i > 1 /\ gl[i - 1] \in DOMAIN model.mc_functions)
       /\ model.galaxy_selection_func = "galprop_cut" =>
             (gl # <<>> /\ SeqRange(gl) \subseteq DOMAIN model.mc_functions)
       /\ model.gal_type_funcs \subseteq (IF gl = <<>> THEN {} ELSE {gl[1]})

\* values of the additional_haloprops keyword: unset, a list, or 'all'
AdditionalHalopropsArgs ==
    { [kind |-> "unset", list |-> <<>>],
      [kind |-> "list", list |-> <<"halo_mvir">>],
      [kind |-> "all", list |-> <<>>] }

\* ------------------------------------------------- MockFactory.__init__
\* halo properties every mock inherits: the host-halo phase-space columns
default_haloprop_list == <<"halo_x", "halo_y", "halo_z", "halo_vx", "halo_vy", "halo_vz">>

NoMock ==
    [pc |-> "new", exc |-> NoExc, model |-> NoAttr, halo_table |-> EmptyTable,
     additional_haloprops_arg |-> NoAttr, additional_haloprops |-> <<>>,
     galaxy_table |-> EmptyTable]

\* the base-class constructor: binds the halo table and the model, builds the
\* list of inherited halo properties and creates the galaxy table
MockFactory_init(halo_table, model, additional_haloprops) ==
    [NoMock EXCEPT
        !.model = model,
        !.halo_table = halo_table,
        !.additional_haloprops_arg = additional_haloprops.kind,
        !.additional_haloprops =
            default_haloprop_list \o
            (IF additional_haloprops.kind = "all"
             THEN KeysInOrder(halo_table, HaloColumnOrder)
             ELSE additional_haloprops.list),
        !.galaxy_table = EmptyTable]

\* ------------------------------ SubhaloMockFactory.preprocess_halo_catalog
\* new_haloprop_func(halo_table = self.halo_table)
NewHalopropFunction(func, halo_table) ==
    [i \in 1..TableLen(halo_table) |-> 90 + halo_table["halo_x"][i]]

NewHalopropOrder == <<"conc">>

RECURSIVE PreprocessLoop(_, _, _)
PreprocessLoop(self, d, keys) ==
    IF keys = <<>> THEN self
    ELSE LET new_haloprop_key == Head(keys)
             new_haloprop_func == d[new_haloprop_key]
         IN PreprocessLoop(
                [self EXCEPT
                    !.halo_table = SetColumn(self.halo_table, new_haloprop_key,
                                     NewHalopropFunction(new_haloprop_func, self.halo_table)),
                    !.additional_haloprops = Append(self.additional_haloprops, new_haloprop_key)],
                d, Tail(keys))

preprocess_halo_catalog(self) ==
    IF self.model.has_new_haloprop_func_dict
    THEN PreprocessLoop(self, self.model.new_haloprop_func_dict,
                        KeysInOrder(self.model.new_haloprop_func_dict, NewHalopropOrder))
    ELSE self

\* ---------------------------------- SubhaloMockFactory.precompute_galprops
phase_space_keys == <<"x", "y", "z", "vx", "vy", "vz">>

\* model_defaults.host_haloprop_prefix + newkey
HostHalopropKey(newkey) ==
    CASE newkey = "x" -> "halo_x" [] newkey = "y" -> "halo_y"
      [] newkey = "z" -> "halo_z" [] newkey = "vx" -> "halo_vx"
      [] newkey = "vy" -> "halo_vy" [] newkey = "vz" -> "halo_vz"

\* galprop + '_gal_type'
GalTypeKey(galprop) ==
    IF galprop = "stellar_mass" THEN "stellar_mass_gal_type" ELSE "sfr_gal_type"

\* for key in self.additional_haloprops: galaxy_table[key] = halo_table[key]
RECURSIVE InheritHaloprops(_, _, _)
InheritHaloprops(galaxy_table, halo_table, keys) ==
    IF keys = <<>> THEN galaxy_table
    ELSE InheritHaloprops(SetColumn(galaxy_table, Head(keys), halo_table[Head(keys)]),
                          halo_table, Tail(keys))

\* the phase-space loop that reads every coordinate from the host x column
CopyPhaseSpaceFromHostX(galaxy_table, keys) ==
    [c \in DOMAIN galaxy_table \cup SeqRange(keys) |->
        IF c \in SeqRange(keys) THEN galaxy_table["halo_x"] ELSE galaxy_table[c]]

\* for newkey in phase_space_keys:
\*     galaxy_table[newkey] = galaxy_table[host_haloprop_prefix + newkey]
CopyPhaseSpace(galaxy_table, keys) ==
    [c \in DOMAIN galaxy_table \cup SeqRange(keys) |->
        IF c \in SeqRange(keys) THEN galaxy_table[HostHalopropKey(c)]
        ELSE galaxy_table[c]]

\* np.arange(n)
Arange(n) == [i \in 1..n |-> i - 1]

\* component_model.gal_type_func(halo_table = self.galaxy_table)
GalTypeFunction(galaxy_table) ==
    [i \in 1..TableLen(galaxy_table) |-> IF galaxy_table["halo_x"][i] >= 1 THEN 1 ELSE 0]

RECURSIVE GalTypeLoop(_, _, _)
GalTypeLoop(galaxy_table, model, galprops) ==
    IF galprops = <<>> THEN galaxy_table
    ELSE LET galprop == Head(galprops)
         IN IF galprop \in model.gal_type_funcs
            THEN GalTypeLoop(SetColumn(galaxy_table, GalTypeKey(galprop),
                                       GalTypeFunction(galaxy_table)),
                             model, Tail(galprops))
            ELSE GalTypeLoop(galaxy_table, model, Tail(galprops))

precompute_galprops(self) ==
    LET inherited == InheritHaloprops(self.galaxy_table, self.halo_table,
                                      self.additional_haloprops)
    IN IF \E k \in SeqRange(phase_space_keys) : HostHalopropKey(k) \notin DOMAIN inherited
       THEN [self EXCEPT !.pc = "failed", !.exc = "KeyError:host_haloprop",
                         !.galaxy_table = inherited]
       ELSE LET moved == CopyPhaseSpace(inherited, phase_space_keys)
                numbered == SetColumn(moved, "galid", Arange(TableLen(moved)))
            IN [self EXCEPT !.galaxy_table =
                    GalTypeLoop(numbered, self.model, self.model.galprop_list)]

\* ---------------------------------------------- SubhaloMockFactory.populate
\* the loop visiting galprop_list from its last entry to its first
GalpropAtReversed(galprop_list, idx) == galprop_list[Len(galprop_list) + 1 - idx]

\* for galprop_key in self.model.galprop_list: the idx-th galprop visited
GalpropAt(galprop_list, idx) == galprop_list[idx]

\* position of a galprop in galprop_list
IndexOf(galprop_list, galprop) ==
    CHOOSE i \in 1..Len(galprop_list) : galprop_list[i] = galprop

\* a model function that reads a column the table does not have raises
McRaises(kind, model, galprop_key, halo_table) ==
    /\ kind = "chained"
    /\ \/ IndexOf(model.galprop_list, galprop_key) = 1
       \/ model.galprop_list[IndexOf(model.galprop_list, galprop_key) - 1]
              \notin DOMAIN halo_table

\* model_func(halo_table = self.galaxy_table) for the three behaviours:
\* a function of each row's inherited halo property, a fixed-seed draw
\* sequence (one draw per row position, the same draws on every call), and a
\* function of the column written for the preceding galprop
McFunction(kind, model, galprop_key, halo_table) ==
    [i \in 1..TableLen(halo_table) |->
        CASE kind = "rowwise" -> halo_table["halo_x"][i] + 1
          [] kind = "seeded" -> IF i % 2 = 1 THEN 1 ELSE 2
          [] kind = "chained" ->
               halo_table[model.galprop_list[IndexOf(model.galprop_list, galprop_key) - 1]][i] + 10]

\* self.model.galaxy_selection_func(self.galaxy_table): a boolean mask
SelectionMask(kind, model, galaxy_table) ==
    [i \in 1..TableLen(galaxy_table) |->
        IF kind = "halo_cut" THEN galaxy_table["halo_x"][i] >= 1
        ELSE galaxy_table[model.galprop_list[Len(model.galprop_list)]][i] >= 2]

\* the row positions a boolean mask keeps, in increasing order
RECURSIVE KeptRows(_, _)
KeptRows(mask, i) ==
    IF i > Len(mask) THEN <<>>
    ELSE IF mask[i] THEN <<i>> \o KeptRows(mask, i + 1)
    ELSE KeptRows(mask, i + 1)

\* the filter that numbers the surviving rows afresh
ApplyMaskRenumbering(galaxy_table, mask) ==
    LET kept == KeptRows(mask, 1)
    IN [c \in DOMAIN galaxy_table |->
           IF c = "galid" THEN [j \in 1..Len(kept) |-> j - 1]
           ELSE [j \in 1..Len(kept) |-> galaxy_table[c][kept[j]]]]

\* self.galaxy_table[mask]
ApplyMask(galaxy_table, mask) ==
    LET kept == KeptRows(mask, 1)
    IN [c \in DOMAIN galaxy_table |-> [j \in 1..Len(kept) |-> galaxy_table[c][kept[j]]]]

\* one pass of the loop body of populate(): look up mc_<galprop_key> on the
\* model (AttributeError when it has none), call it on the galaxy table (the
\* call may raise) and store the result as the galprop's column
PopulateGalprop(self, idx) ==
    LET galprop_key == GalpropAt(self.model.galprop_list, idx)
    IN IF galprop_key \notin DOMAIN self.model.mc_functions
       THEN [exc |-> "AttributeError:mc_function", galaxy_table |-> self.galaxy_table,
             events |-> <<>>]
       ELSE IF McRaises(self.model.mc_functions[galprop_key], self.model,
                        galprop_key, self.galaxy_table)
       THEN [exc |-> "KeyError:column", galaxy_table |-> self.galaxy_table,
             events |-> <<>>]
       ELSE LET out == McFunction(self.model.mc_functions[galprop_key], self.model,
                                  galprop_key, self.galaxy_table)
            IN [exc |-> NoExc,
                galaxy_table |-> SetColumn(self.galaxy_table, galprop_key, out),
                events |-> <<[kind |-> "mc", galprop |-> galprop_key,
                              seen |-> self.galaxy_table, out |-> out]>>]

\* the statements of populate() after the loop
PopulateSelection(self) ==
    IF self.model.galaxy_selection_func # NoAttr
    THEN LET mask == SelectionMask(self.model.galaxy_selection_func, self.model,
                                   self.galaxy_table)
         IN [galaxy_table |-> ApplyMask(self.galaxy_table, mask),
             events |-> <<[kind |-> "select", galprop |-> NoAttr,
                           seen |-> self.galaxy_table, out |-> mask]>>]
    ELSE [galaxy_table |-> self.galaxy_table, events |-> <<>>]

\* ------------------------------------------------------------------ state
\* run: the populate() call in progress or last made: the loop position, the
\* calls made so far, the galaxy table at entry and the calls completed
NoRun == [npop |-> 0, idx |-> 0, log |-> <<>>, pre_table |-> EmptyTable]

Init ==
    /\ hod = NoHod
    /\ call = NoCall
    /\ mock = NoMock
    /\ run = NoRun

\* HodModel(halo_prof_model, model_blueprint, haloprop_key_dict)
HodModel_init ==
    /\ hod.pc = "new"
    /\ \E halo_prof_model \in HaloProfModels, model_blueprint \in Blueprints,
          haloprop_key_dict \in HalopropKeyDicts :
          hod' = HodModelInit(halo_prof_model, model_blueprint, haloprop_key_dict)
    /\ UNCHANGED <<call, mock, run>>

\* model.component_behavior(gal_type, component_key, *args, **kwargs)
component_behavior ==
    /\ hod.pc = "built"
    /\ \E gal_type \in DOMAIN hod.model_blueprint :
       \E component_key \in DOMAIN hod.model_blueprint[gal_type] :
       \E args \in ArgLists, kwargs \in KwargDicts :
          call' = ComponentBehaviorCall(hod, gal_type, component_key, args, kwargs)
    /\ UNCHANGED <<hod, mock, run>>

\* a caller (a likelihood engine) changes one parameter of the composite
\* model: model.param_dict[key] = value
param_dict_setitem ==
    /\ hod.pc = "built"
    /\ \E key \in DOMAIN hod.param_dict, value \in ParamValues :
          hod' = ParamDictSetItem(hod, key, value)
    /\ UNCHANGED <<call, mock, run>>

NextHod == HodModel_init \/ component_behavior \/ param_dict_setitem

SpecHod == Init /\ [][NextHod]_vars

\* SubhaloMockFactory(snapshot, model, additional_haloprops, populate): the
\* base constructor, preprocess_halo_catalog, precompute_galprops and, when
\* populate is True, the entry into populate()
SubhaloMockFactory_init ==
    /\ mock.pc = "new"
    /\ \E halo_table \in HaloTables, model \in { m \in Models : ValidModel(m) },
          additional_haloprops \in AdditionalHalopropsArgs, populate_arg \in BOOLEAN :
          LET self == precompute_galprops(preprocess_halo_catalog(
                          MockFactory_init(halo_table, model, additional_haloprops)))
          IN IF self.pc = "failed"
             THEN mock' = self /\ run' = run
             ELSE IF populate_arg
             THEN /\ mock' = [self EXCEPT !.pc = "populating"]
                  /\ run' = [run EXCEPT !.idx = 1, !.log = <<>>,
                                        !.pre_table = self.galaxy_table]
             ELSE /\ mock' = [self EXCEPT !.pc = "idle"]
                  /\ run' = run
    /\ UNCHANGED <<hod, call>>

\* mock.populate() is called
populate ==
    /\ mock.pc = "idle"
    /\ run.npop < MaxPopulate
    /\ mock' = [mock EXCEPT !.pc = "populating"]
    /\ run' = [run EXCEPT !.idx = 1, !.log = <<>>, !.pre_table = mock.galaxy_table]
    /\ UNCHANGED <<hod, call>>

\* populate(): one iteration of the loop over galprop_list
populate_galprop ==
    /\ mock.pc = "populating"
    /\ run.idx <= Len(mock.model.galprop_list)
    /\ LET step == PopulateGalprop(mock, run.idx)
       IN IF step.exc # NoExc
          THEN /\ mock' = [mock EXCEPT !.pc = "failed", !.exc = step.exc]
               /\ run' = run
          ELSE /\ mock' = [mock EXCEPT !.galaxy_table = step.galaxy_table]
               /\ run' = [run EXCEPT !.idx = @ + 1, !.log = @ \o step.events]
    /\ UNCHANGED <<hod, call>>

\* populate(): the selection after the loop, and the return
populate_selection ==
    /\ mock.pc = "populating"
    /\ run.idx > Len(mock.model.galprop_list)
    /\ LET step == PopulateSelection(mock)
       IN /\ mock' = [mock EXCEPT !.pc = "idle", !.galaxy_table = step.galaxy_table]
          /\ run' = [run EXCEPT !.npop = @ + 1, !.log = @ \o step.events]
    /\ UNCHANGED <<hod, call>>

NextMock ==
    \/ SubhaloMockFactory_init
    \/ populate
    \/ populate_galprop
    \/ populate_selection

SpecMock == Init /\ [][NextMock]_vars

\* ================================================== claims about HodModel
\* the (gal_type, feature) entries of a blueprint
Entries(bp) == { <<g, f>> : g \in DOMAIN bp, f \in Features } \cap
               { e \in GalTypes \X Features : e[1] \in DOMAIN bp /\ e[2] \in DOMAIN bp[e[1]] }

EntryParams(bp, e) == bp[e[1]][e[2]].param_dict

RECURSIVE SumOfSizes(_, _)
SumOfSizes(bp, es) ==
    IF es = {} THEN 0
    ELSE LET e == CHOOSE x \in es : TRUE
         IN Cardinality(DOMAIN EntryParams(bp, e)) + SumOfSizes(bp, es \ {e})

SharesParameterName(bp) ==
    \E e1, e2 \in Entries(bp) :
        e1 # e2 /\ DOMAIN EntryParams(bp, e1) \cap DOMAIN EntryParams(bp, e2) # {}

\* what C1 says of a freshly constructed model
ParamDictIsDisjointUnion(self) ==
    self.raised_in # "_create_haloprop_keys" =>
        LET bp == self.model_blueprint
        IN IF SharesParameterName(bp)
           THEN /\ self.pc = "failed"
                /\ self.raised_in = "build_composite_param_dict"
                /\ self.exc = "KeyError:repeated_param"
           ELSE /\ self.raised_in # "build_composite_param_dict"
                /\ DOMAIN self.param_dict =
                     UNION { DOMAIN EntryParams(bp, e) : e \in Entries(bp) }
                /\ Cardinality(DOMAIN self.param_dict) = SumOfSizes(bp, Entries(bp))
                /\ \A e \in Entries(bp) : \A k \in DOMAIN EntryParams(bp, e) :
                       self.param_dict[k] = EntryParams(bp, e)[k]

\* C1: when construction reaches build_composite_param_dict, either two
\* components share a parameter name and construction fails there with the
\* repeated-parameter error, or the composite param_dict it yields has
\* exactly the union of the components' keys, as many keys as the
\* components' sizes add up to, and for every key the value its component
\* supplied.
C1_ParamDictIsDisjointUnion ==
    [][ hod.pc = "new" => ParamDictIsDisjointUnion(hod') ]_vars

\* a model built from three components that all bring parameters
C1_Witness ==
    /\ hod.pc = "built"
    /\ Cardinality(Entries(hod.model_blueprint)) = 3
    /\ Cardinality(DOMAIN hod.param_dict) >= 2
    /\ \A e \in Entries(hod.model_blueprint) :
           DOMAIN EntryParams(hod.model_blueprint, e) # {}

DeclaredSecKeys(bp) ==
    { bp[e[1]][e[2]].sec_haloprop_key : e \in Entries(bp) } \ {NoAttr}

\* C2: construction fails in _create_haloprop_keys with a consistency error
\* when two behaviors declare different sec_haloprop_key values; when all
\* declaring behaviors agree it passes that step with sec_haloprop_key equal
\* to the common string; when none declares one it passes with no secondary
\* halo property.
C2_SecHalopropKeyResolution ==
    hod.pc # "new" =>
        LET declared == DeclaredSecKeys(hod.model_blueprint)
        IN IF Cardinality(declared) > 1
           THEN /\ hod.pc = "failed"
                /\ hod.raised_in = "_create_haloprop_keys"
                /\ hod.exc \in {"KeyError:sec_haloprop_within_gal_type",
                                "KeyError:sec_haloprop_across_gal_types"}
           ELSE /\ hod.raised_in # "_create_haloprop_keys"
                /\ hod.sec_haloprop_key =
                     (IF declared = {} THEN NoAttr ELSE CHOOSE k \in declared : TRUE)

\* the function the first registration of a new halo property name supplies
FirstRegistered(halo_prof_model, bp, name) ==
    IF name \in DOMAIN halo_prof_model.param_func_dict
    THEN halo_prof_model.param_func_dict[name]
    ELSE LET items == BlueprintItems(bp, KeysInOrder(bp, GalTypeOrder))
             declares(i) == /\ items[i].model.has_new_haloprop_dict
                            /\ name \in DOMAIN items[i].model.new_haloprop_dict
             first == CHOOSE i \in 1..Len(items) :
                         declares(i) /\ \A j \in 1..(i - 1) : ~declares(j)
         IN items[first].model.new_haloprop_dict[name]

DeclaredNewHaloprops(bp) ==
    UNION { IF bp[e[1]][e[2]].has_new_haloprop_dict
            THEN DOMAIN bp[e[1]][e[2]].new_haloprop_dict ELSE {} : e \in Entries(bp) }

\* C3: when construction reaches get_new_haloprop_dict it completes, and the
\* resulting dictionary holds the halo-profile model's entries plus, for
\* every name a component declares, the first-registered function.
C3_NewHalopropFirstRegisteredWins ==
    (hod.pc # "new" /\ hod.raised_in \notin {"_create_haloprop_keys",
                                            "build_composite_param_dict"}) =>
        /\ hod.pc = "built"
        /\ DOMAIN hod.additional_haloprops =
             DOMAIN hod.halo_prof_model.param_func_dict
             \cup DeclaredNewHaloprops(hod.model_blueprint)
        /\ \A name \in DOMAIN hod.additional_haloprops :
               hod.additional_haloprops[name] =
                   FirstRegistered(hod.halo_prof_model, hod.model_blueprint, name)

\* C7: a component_behavior call with both positional arrays and a
\* mock_galaxies keyword, or with neither, raises the argument error without
\* invoking the component function; a call with positional arrays only
\* invokes it with exactly those arrays in order.
C7_ExactlyOneArgumentSource ==
    call.made =>
        LET positional == Len(call.args) > 0
            with_mock == "mock_galaxies" \in DOMAIN call.kwargs
        IN /\ (positional <=> with_mock) =>
                 /\ ~call.invoked
                 /\ call.exc \in {"SyntaxError:neither", "SyntaxError:both"}
           /\ (positional /\ ~with_mock) =>
                 /\ call.invoked
                 /\ call.exc = NoExc
                 /\ call.relevant_data = call.args

\* a call that passes two arrays and a mock
C7_Witness ==
    /\ call.made
    /\ Len(call.args) = 2
    /\ "mock_galaxies" \in DOMAIN call.kwargs
    /\ call.exc = "SyntaxError:both"

\* C10: a call with a mock forwards first the column named by
\* halo_prof_model.prim_haloprop_key at the gal_type's slice, and a second
\* array exactly when construction resolved a sec_haloprop_key, then the
\* column of that key at the same slice.
C10_MockColumnsFollowResolvedKeys ==
    (call.made /\ call.invoked /\ "mock_galaxies" \in DOMAIN call.kwargs) =>
        LET mock_galaxies == call.kwargs["mock_galaxies"]
            slice == mock_galaxies.gal_type_indices[call.gal_type]
        IN /\ Len(call.relevant_data) >= 1
           /\ call.relevant_data[1] =
                Slice(mock_galaxies.columns[hod.halo_prof_model.prim_haloprop_key], slice)
           /\ (Len(call.relevant_data) = 2) <=> (hod.sec_haloprop_key # NoAttr)
           /\ hod.sec_haloprop_key # NoAttr =>
                call.relevant_data[2] =
                    Slice(mock_galaxies.columns[hod.sec_haloprop_key], slice)



\* the component instance as it was handed to the blueprint
OriginalComponent(id) == CHOOSE c \in Components : c.id = id

ComponentsUntouched(self) ==
    \A e \in Entries(self.model_blueprint) :
        LET instance == self.model_blueprint[e[1]][e[2]]
        IN instance.param_dict = OriginalComponent(instance.id).param_dict

\* C11: every component_behavior call that reaches the component function
\* passes it the composite param_dict as it is when the call is made, and no
\* step (construction, a write to the composite param_dict, a call) leaves a
\* component instance with a param_dict other than its own original one.
C11_ParamDictDecoupled ==
    [][ /\ (call' # call /\ call'.invoked) => call'.input_param_dict = hod.param_dict
        /\ hod'.pc # "new" => ComponentsUntouched(hod') ]_vars

\* a call made after a write: the function got a param_dict that differs
\* from the one built at construction
C11_Witness ==
    /\ hod.pc = "built"
    /\ call.made /\ call.invoked
    /\ call.input_param_dict = hod.param_dict
    /\ call.input_param_dict # build_composite_param_dict(hod.model_blueprint).val
    /\ Cardinality(Entries(hod.model_blueprint)) >= 2

\* ======================================= claims about SubhaloMockFactory
\* C4: a populate() call that follows a completed populate() call on the
\* same mock leaves the galaxy table as the earlier call left it.
C4_SecondPopulateSameTable ==
    (mock.pc = "idle" /\ run.npop >= 2) => mock.galaxy_table = run.pre_table

\* C5: until a selection filter has been applied the galaxy table has one
\* row per halo row with galid 0..N-1 in row order; at all times it has at
\* most N rows, every row carries the galid of the halo row it was built
\* from, and the rows are in increasing galid order.
C5_GalidDenseThenStable ==
    mock.pc \notin {"new"} =>
        LET t == mock.galaxy_table
            N == TableLen(mock.halo_table)
        IN /\ "galid" \in DOMAIN t
           /\ (run.npop = 0 \/ mock.model.galaxy_selection_func = NoAttr) =>
                 /\ TableLen(t) = N
                 /\ t["galid"] = [i \in 1..N |-> i - 1]
           /\ TableLen(t) <= N
           /\ \A i \in 1..TableLen(t) :
                 /\ t["galid"][i] \in 0..(N - 1)
                 /\ \A c \in SeqRange(default_haloprop_list) :
                        t[c][i] = mock.halo_table[c][t["galid"][i] + 1]
           /\ \A i, j \in 1..TableLen(t) : i < j => t["galid"][i] < t["galid"][j]

\* a filter has removed the first row and kept a later one
C5_Witness ==
    /\ mock.pc = "idle"
    /\ run.npop >= 1
    /\ mock.model.galaxy_selection_func # NoAttr
    /\ TableLen(mock.galaxy_table) >= 1
    /\ TableLen(mock.galaxy_table) < TableLen(mock.halo_table)
    /\ mock.galaxy_table["galid"][1] > 0

\* C6: the calls of one populate() are the mc_ functions once each in
\* galprop_list order, each passed a table holding the columns the earlier
\* calls returned, followed, exactly when the model has a
\* galaxy_selection_func, by one selection call that sees all those columns;
\* a completed populate() has made all of these calls.
C6_CallsInGalpropListOrder ==
    mock.pc \in {"populating", "idle", "failed"} =>
        LET gl == mock.model.galprop_list
            log == run.log
            declared == mock.model.galaxy_selection_func # NoAttr
        IN /\ \A i \in 1..Len(log) :
                 /\ \A j \in 1..Len(gl) :
                        j < i => /\ gl[j] \in DOMAIN log[i].seen
                                 /\ log[i].seen[gl[j]] = log[j].out
                 /\ IF i <= Len(gl)
                    THEN log[i].kind = "mc" /\ log[i].galprop = gl[i]
                    ELSE log[i].kind = "select" /\ i = Len(gl) + 1 /\ declared
           /\ (mock.pc = "idle" /\ run.npop >= 1) =>
                 Len(log) = Len(gl) + (IF declared THEN 1 ELSE 0)

\* a completed populate() of two galprops, the second reading the first,
\* with a selection
C6_Witness ==
    /\ mock.pc = "idle"
    /\ run.npop >= 1
    /\ Len(mock.model.galprop_list) = 2
    /\ mock.model.mc_functions[mock.model.galprop_list[2]] = "chained"
    /\ Len(run.log) = 3
    /\ run.log[3].kind = "select"

\* C8: when populate() aborts because a galprop has no mc_ function, the
\* galaxy table is as it was when that populate() call began.
C8_FailedPopulateLeavesTable ==
    (mock.pc = "failed" /\ mock.exc = "AttributeError:mc_function") =>
        mock.galaxy_table = run.pre_table

\* C9: once precompute_galprops has run and before populate() has written
\* anything, each of the columns x, y, z, vx, vy, vz of the galaxy table
\* equals the halo table's host-halo-prefixed column, whatever
\* additional_haloprops was given.
C9_PhaseSpaceInheritedFromHost ==
    (mock.pc \in {"idle", "populating"} /\ run.npop = 0 /\ run.log = <<>>) =>
        \A k \in SeqRange(phase_space_keys) :
            /\ k \in DOMAIN mock.galaxy_table
            /\ mock.galaxy_table[k] = mock.halo_table[HostHalopropKey(k)]

\* a mock of several halos built with additional_haloprops unset
C9_Witness ==
    /\ mock.pc = "idle"
    /\ run.npop = 0
    /\ mock.additional_haloprops_arg = "unset"
    /\ TableLen(mock.halo_table) >= 2
    /\ TableLen(mock.galaxy_table) = TableLen(mock.halo_table)

====
